---------------------------- MODULE Spec2Model ----------------------------
(***************************************************************************)
(* MeltScan: a port scanner with a Tk shell (meltscan_gui.py) and a        *)
(* command-line shell (meltscan_cli.py).                                   *)
(*                                                                         *)
(* Texts are sequences of one-character strings, so that splitting,        *)
(* stripping and integer parsing are computed the way the code computes    *)
(* them.  A target is the character sequence of its text.                  *)
(***************************************************************************)
EXTENDS Integers, Sequences, FiniteSets, TLC

(***************************************************************************)
(* Text helpers: re.split, str.strip, str.split, int().                    *)
(***************************************************************************)
Digits == <<"0", "1", "2", "3", "4", "5", "6", "7", "8", "9">>

DigitChars == {Digits[i] : i \in 1..10}

\* \s of the regular expression, and the characters str.strip() removes
WhiteSpace == {" ", "\n", "\t"}

DigitVal(c) == (CHOOSE i \in 1..10 : Digits[i] = c) - 1

RECURSIVE SplitRun(_, _, _, _, _)
\* re.split(r"[seps]+", s): a run of separators is one cut; a text that
\* starts or ends with a separator yields an empty first or last piece
SplitRun(s, seps, cur, acc, insep) ==
    IF s = <<>> THEN Append(acc, cur)
    ELSE IF Head(s) \in seps
         THEN IF insep
              THEN SplitRun(Tail(s), seps, cur, acc, TRUE)
              ELSE SplitRun(Tail(s), seps, <<>>, Append(acc, cur), TRUE)
         ELSE SplitRun(Tail(s), seps, Append(cur, Head(s)), acc, FALSE)

ReSplit(s, seps) == SplitRun(s, seps, <<>>, <<>>, FALSE)

RECURSIVE SplitEach(_, _, _, _)
\* str.split(sep): every separator is a cut
SplitEach(s, sep, cur, acc) ==
    IF s = <<>> THEN Append(acc, cur)
    ELSE IF Head(s) = sep
         THEN SplitEach(Tail(s), sep, <<>>, Append(acc, cur))
         ELSE SplitEach(Tail(s), sep, Append(cur, Head(s)), acc)

StrSplit(s, sep) == SplitEach(s, sep, <<>>, <<>>)

RECURSIVE LStrip(_)
LStrip(s) ==
    IF s # <<>> /\ Head(s) \in WhiteSpace THEN LStrip(Tail(s)) ELSE s

RECURSIVE RStrip(_)
RStrip(s) ==
    IF s # <<>> /\ s[Len(s)] \in WhiteSpace
    THEN RStrip(SubSeq(s, 1, Len(s) - 1))
    ELSE s

\* str.strip()
Strip(s) == RStrip(LStrip(s))

Contains(s, c) == \E i \in 1..Len(s) : s[i] = c

AllDigits(s) == s # <<>> /\ \A i \in 1..Len(s) : s[i] \in DigitChars

RECURSIVE DigitsVal(_, _)
DigitsVal(s, acc) ==
    IF s = <<>> THEN acc ELSE DigitsVal(Tail(s), 10 * acc + DigitVal(Head(s)))

\* int(s) accepts surrounding blanks, one sign and decimal digits; anything
\* else raises ValueError
IntBody(s) ==
    LET t == Strip(s)
    IN IF t # <<>> /\ Head(t) \in {"+", "-"} THEN Tail(t) ELSE t

IntOk(s) == AllDigits(IntBody(s))

IntVal(s) ==
    LET t == Strip(s)
        v == DigitsVal(IntBody(s), 0)
    IN IF t # <<>> /\ Head(t) = "-" THEN 0 - v ELSE v

\* float(s) succeeds: blanks, one sign, digits with at most one point
FloatOk(s) ==
    LET body == IntBody(s)
        parts == StrSplit(body, ".")
    IN \/ AllDigits(body)
       \/ /\ Len(parts) = 2
          /\ parts[1] \o parts[2] # <<>>
          /\ \A i \in 1..2 : parts[i] = <<>> \/ AllDigits(parts[i])

\* str(n) of a natural number
RECURSIVE NatStr(_)
NatStr(n) ==
    IF n < 10 THEN <<Digits[n + 1]>>
    ELSE Append(NatStr(n \div 10), Digits[(n % 10) + 1])

Min(a, b) == IF a < b THEN a ELSE b

Max(a, b) == IF a > b THEN a ELSE b

RECURSIVE SortedList(_)
\* sorted(list(set))
SortedList(S) ==
    IF S = {} THEN <<>>
    ELSE LET m == CHOOSE x \in S : \A y \in S : x <= y
         IN <<m>> \o SortedList(S \ {m})

RECURSIVE Flatten(_)
Flatten(ss) == IF ss = <<>> THEN <<>> ELSE Head(ss) \o Flatten(Tail(ss))

Range(s) == {s[i] : i \in 1..Len(s)}

(***************************************************************************)
(* parse_ports                                                             *)
(***************************************************************************)
PortLow == 1

PortHigh == 65535

\* a left side that is not clamped
ClampLeftNone(a) == a

\* the lower clamp of a range token: only the left side is raised to 1
ClampLeft(a) == IF a < PortLow THEN PortLow ELSE a

\* the upper clamp of a range token: only the right side is cut to 65535
ClampRight(b) == IF b > PortHigh THEN PortHigh ELSE b

\* the ports one token adds to the set (the empty set when it is skipped)
PortToken(p) ==
    IF p = <<>> THEN {}
    ELSE IF Contains(p, "-")
    THEN LET parts == StrSplit(p, "-")
         IN IF Len(parts) # 2 THEN {}
            ELSE IF ~IntOk(parts[1]) \/ ~IntOk(parts[2]) THEN {}
            ELSE LET a == ClampLeft(IntVal(parts[1]))
                     b == ClampRight(IntVal(parts[2]))
                 IN Min(a, b)..Max(a, b)
    ELSE IF ~IntOk(p) THEN {}
         ELSE LET val == IntVal(p)
              IN IF PortLow <= val /\ val <= PortHigh THEN {val} ELSE {}

parse_ports(text) ==
    IF text = <<>> THEN <<>>
    ELSE LET parts == ReSplit(Strip(text), WhiteSpace \cup {",", ";"})
         IN SortedList(UNION {PortToken(parts[i]) : i \in 1..Len(parts)})

(***************************************************************************)
(* parse_targets.  ipaddress is modelled for dotted-quad IPv4 texts with a *)
(* decimal prefix length; the input alphabet holds no ':' and no '%', so   *)
(* IPv6 forms never arise, and a prefix part is digits or is rejected.     *)
(***************************************************************************)
\* one octet of IPv4Address: 1 to 3 ASCII digits, no leading zero, <= 255
OctetOk(o) ==
    /\ AllDigits(o)
    /\ Len(o) <= 3
    /\ (Len(o) > 1 => o[1] # "0")
    /\ DigitsVal(o, 0) <= 255

IPv4Ok(s) ==
    LET o == StrSplit(s, ".")
    IN Len(o) = 4 /\ \A i \in 1..4 : OctetOk(o[i])

IPv4Int(s) ==
    LET o == StrSplit(s, ".")
    IN ((DigitsVal(o[1], 0) * 256 + DigitsVal(o[2], 0)) * 256
            + DigitsVal(o[3], 0)) * 256 + DigitsVal(o[4], 0)

\* str(IPv4Address(n))
IPv4Str(n) ==
    NatStr(n \div 16777216) \o <<".">> \o NatStr((n \div 65536) % 256)
        \o <<".">> \o NatStr((n \div 256) % 256) \o <<".">> \o NatStr(n % 256)

\* ipaddress.ip_address(t) succeeds
ip_address_ok(t) == IPv4Ok(t)

\* ipaddress.ip_network(t, strict=False) succeeds
ip_network_ok(t) ==
    LET parts == StrSplit(t, "/")
    IN /\ Len(parts) = 2
       /\ IPv4Ok(parts[1])
       /\ AllDigits(parts[2])
       /\ DigitsVal(parts[2], 0) <= 32

\* [str(ip) for ip in ip_network(t, strict=False).hosts()]: the host bits
\* of the address are dropped; the network and broadcast addresses are
\* left out up to /30, a /31 has its two addresses, a /32 its one
network_hosts(t) ==
    LET parts == StrSplit(t, "/")
        prefix == DigitsVal(parts[2], 0)
        size == 2 ^ (32 - prefix)
        addr == IPv4Int(parts[1])
        network == addr - (addr % size)
        first == IF prefix >= 31 THEN network ELSE network + 1
        last == IF prefix >= 31 THEN network + size - 1 ELSE network + size - 2
    IN [i \in 1..(last - first + 1) |-> IPv4Str(first + i - 1)]

\* a token taken as it stands
TargetTokenRaw(token) == IF token = <<>> THEN <<>> ELSE <<token>>

\* what one token of the target text appends to the output list
TargetToken(token) ==
    LET t == Strip(token)
    IN IF t = <<>> THEN <<>>
       ELSE IF Contains(t, "/")
       THEN IF ip_network_ok(t) THEN network_hosts(t)
            ELSE IF ip_address_ok(t) THEN <<t>>
            ELSE <<>>
       ELSE <<t>>

parse_targets(text) ==
    LET raw == ReSplit(Strip(text), {"\n", ",", ";"})
    IN Flatten([i \in 1..Len(raw) |-> TargetToken(raw[i])])

(***************************************************************************)
(* Probe strategies.  The network is the environment: what one connection  *)
(* attempt or one packet exchange meets.                                   *)
(***************************************************************************)
\* what sock.connect_ex meets
ConnOutcomes == {"established", "refused", "timeout", "unreachable", "resolve_fail"}

ECONNREFUSED == 111

EAGAIN == 11

EHOSTUNREACH == 113

\* sock.connect_ex((target, port)): an error of the C connect call comes
\* back as its errno (a timeout as EAGAIN); a failure before the call, such
\* as a name-resolution failure, raises
connect_ex(outcome) ==
    CASE outcome = "established" -> [raised |-> FALSE, result |-> 0]
      [] outcome = "refused" -> [raised |-> FALSE, result |-> ECONNREFUSED]
      [] outcome = "timeout" -> [raised |-> FALSE, result |-> EAGAIN]
      [] outcome = "unreachable" -> [raised |-> FALSE, result |-> EHOSTUNREACH]
      [] OTHER -> [raised |-> TRUE, result |-> -1]

\* the text of the exception connect_ex raised: str(e)
ErrText(outcome) == "error: " \o outcome

\* the branch on connect_ex's return value
ConnectState(result) == IF result = 0 THEN "open" ELSE "closed"

\* a probe's return value, whether it reached a sock.close() of a socket it
\* made (closed; TRUE when it made none), and whether it handed a raw
\* packet to sr1 (sent)
\* tcp_connect_scan
tcp_connect_scan(outcome) ==
    LET c == connect_ex(outcome)
    IN IF c.raised
       THEN [state |-> "unknown", info |-> ErrText(outcome), closed |-> FALSE, sent |-> FALSE]
       ELSE [state |-> ConnectState(c.result), info |-> "", closed |-> TRUE, sent |-> FALSE]

\* TCP flag bits of a reply
SYN == 2

RST == 4

ACK == 16

\* a test that is content with one bit of the mask
HasAnyBit(flags, bits) == \E b \in bits : (flags \div b) % 2 = 1

\* flags & mask == mask, for a mask that is a sum of distinct bits
HasBits(flags, bits) == \A b \in bits : (flags \div b) % 2 = 1

\* what sr1 gives back: nothing, a packet with a TCP layer and its flags,
\* a packet with a UDP layer, another packet (ICMP), or an exception
Replies ==
    {[kind |-> "none", flags |-> 0], [kind |-> "udp", flags |-> 0],
     [kind |-> "icmp", flags |-> 0], [kind |-> "raise", flags |-> 0]}
        \cup {[kind |-> "tcp", flags |-> f] : f \in {0, SYN, ACK, SYN + ACK, RST, RST + ACK, SYN + RST + ACK}}

\* a half-open scan that has no fallback
tcp_syn_scan_raw(scapy_available, outcome, reply) ==
    IF reply.kind = "none"
    THEN [state |-> "filtered", info |-> "Sem resposta", closed |-> TRUE, sent |-> TRUE]
    ELSE [state |-> "unknown", info |-> "error: sr1", closed |-> TRUE, sent |-> TRUE]

tcp_syn_scan(scapy_available, outcome, reply) ==
    IF ~scapy_available THEN tcp_connect_scan(outcome)
    ELSE IF reply.kind = "raise"
    THEN [state |-> "unknown", info |-> "error: sr1", closed |-> TRUE, sent |-> TRUE]
    ELSE IF reply.kind = "none"
    THEN [state |-> "filtered", info |-> "Sem resposta", closed |-> TRUE, sent |-> TRUE]
    ELSE IF reply.kind = "tcp" /\ HasBits(reply.flags, {SYN, ACK})
    THEN [state |-> "open", info |-> "", closed |-> TRUE, sent |-> TRUE]
    ELSE IF reply.kind = "tcp" /\ HasBits(reply.flags, {RST, ACK})
    THEN [state |-> "closed", info |-> "", closed |-> TRUE, sent |-> TRUE]
    ELSE [state |-> "filtered", info |-> "Resposta inesperada", closed |-> TRUE, sent |-> TRUE]

\* a udp_scan that gives no diagnostic
udp_scan_silent(scapy_available, reply) ==
    [state |-> "unknown", info |-> "", closed |-> TRUE, sent |-> FALSE]

udp_scan(scapy_available, reply) ==
    IF ~scapy_available
    THEN [state |-> "unknown", info |-> "Scapy nao disponivel", closed |-> TRUE, sent |-> FALSE]
    ELSE IF reply.kind = "raise"
    THEN [state |-> "unknown", info |-> "error: sr1", closed |-> TRUE, sent |-> TRUE]
    ELSE IF reply.kind = "none"
    THEN [state |-> "open|filtered", info |-> "Sem resposta", closed |-> TRUE, sent |-> TRUE]
    ELSE IF reply.kind = "udp"
    THEN [state |-> "open", info |-> "", closed |-> TRUE, sent |-> TRUE]
    ELSE [state |-> "filtered", info |-> "Provavelmente filtrada", closed |-> TRUE, sent |-> TRUE]

\* the probe a worker runs for one job
RunProbe(scapy_available, tcp_mode, proto, outcome, reply) ==
    IF proto = "tcp"
    THEN IF tcp_mode = "syn"
         THEN tcp_syn_scan(scapy_available, outcome, reply)
         ELSE tcp_connect_scan(outcome)
    ELSE udp_scan(scapy_available, reply)

\* traduz_estado
traduz_estado(state) ==
    CASE state = "open" -> "Aberta"
      [] state = "closed" -> "Fechada"
      [] state = "filtered" -> "Filtrada"
      [] state = "open|filtered" -> "Aberta/Filtrada"
      [] state = "timeout" -> "Tempo esgotado"
      [] state = "unknown" -> "Desconhecida"
      [] OTHER -> state

(***************************************************************************)
(* The Tk application (MeltScanApp), its run_workers threads and workers.  *)
(***************************************************************************)
\* button presses (Iniciar that begins a run, Parar, Limpar) in one behaviour
MaxClicks == 4

\* the same, in the pool specification
PoolClicks == 2

\* worker slots of one run: the largest thread count among StartInputs
MaxThreads == 2

Runs == 1..Max(MaxClicks, PoolClicks)

Slots == 1..MaxThreads

\* what the user has typed and ticked when Iniciar is pressed: a run of two
\* equal jobs, a run of one job, a run with no protocol ticked, two forms
\* that start_scan turns down, and a timeout text that float() rejects
StartInputs ==
    {[targets |-> <<"a", ",", "a">>, ports |-> <<"1">>, tcp |-> TRUE, udp |-> FALSE,
      tcp_mode |-> "connect", timeout |-> <<"2">>, threads |-> <<"1">>],
     [targets |-> <<"b">>, ports |-> <<"2">>, tcp |-> FALSE, udp |-> TRUE,
      tcp_mode |-> "syn", timeout |-> <<"2">>, threads |-> <<"0">>],
     [targets |-> <<"a">>, ports |-> <<"1">>, tcp |-> FALSE, udp |-> FALSE,
      tcp_mode |-> "syn", timeout |-> <<"2">>, threads |-> <<"1">>],
     [targets |-> <<" ", ";">>, ports |-> <<"1">>, tcp |-> TRUE, udp |-> FALSE,
      tcp_mode |-> "connect", timeout |-> <<"2">>, threads |-> <<"1">>],
     [targets |-> <<"a">>, ports |-> <<"x", ",", "7", "0", "0", "0", "0">>, tcp |-> TRUE,
      udp |-> FALSE, tcp_mode |-> "connect", timeout |-> <<"2">>, threads |-> <<"1">>],
     [targets |-> <<"a">>, ports |-> <<"1">>, tcp |-> TRUE, udp |-> FALSE,
      tcp_mode |-> "connect", timeout |-> <<"x">>, threads |-> <<"1">>]}

\* the forms of the specification of rejected starts: a run of one job, a
\* target field with separators only, and a port field with no valid port
RejectInputs ==
    {[targets |-> <<"a">>, ports |-> <<"1">>, tcp |-> TRUE, udp |-> FALSE,
      tcp_mode |-> "connect", timeout |-> <<"2">>, threads |-> <<"1">>],
     [targets |-> <<" ", ";">>, ports |-> <<"1">>, tcp |-> TRUE, udp |-> FALSE,
      tcp_mode |-> "connect", timeout |-> <<"2">>, threads |-> <<"1">>],
     [targets |-> <<"a">>, ports |-> <<"x", ",", "7", "0", "0", "0", "0">>, tcp |-> TRUE,
      udp |-> FALSE, tcp_mode |-> "connect", timeout |-> <<"2">>, threads |-> <<"1">>]}

\* the forms of the refinement specification: two targets by two ports over
\* TCP with one worker, the target field beginning with a blank; one target
\* by two ports over both protocols with one worker, the port field ending
\* with a blank; and one target by one port over both protocols with two
\* workers
RefineInputs ==
    {[targets |-> <<" ", "b", ",", "a">>, ports |-> <<"2", ",", "1">>, tcp |-> TRUE,
      udp |-> FALSE, tcp_mode |-> "connect", timeout |-> <<"2">>, threads |-> <<"1">>],
     [targets |-> <<"a">>, ports |-> <<"2", ",", "1", " ">>, tcp |-> TRUE, udp |-> TRUE,
      tcp_mode |-> "connect", timeout |-> <<"2">>, threads |-> <<"1">>],
     [targets |-> <<"a">>, ports |-> <<"1">>, tcp |-> TRUE, udp |-> TRUE,
      tcp_mode |-> "syn", timeout |-> <<"2">>, threads |-> <<"2">>]}

\* the form of the pool specification: two workers on a queue of two jobs,
\* a/tcp/1 then a/udp/1
PoolInputs ==
    {[targets |-> <<"a">>, ports |-> <<"1">>, tcp |-> TRUE, udp |-> TRUE,
      tcp_mode |-> "syn", timeout |-> <<"2">>, threads |-> <<"2">>]}

\* the forms of the fair specification: two workers on a queue of one job,
\* with a timeout field float() accepts and with one it turns down
FairInputs ==
    {[targets |-> <<"a">>, ports |-> <<"1">>, tcp |-> TRUE, udp |-> FALSE,
      tcp_mode |-> "syn", timeout |-> t, threads |-> <<"2">>] : t \in {<<"2">>, <<"x">>}}

\* the form of the error specification: two workers on a queue of two jobs
\* whose probes both fail, b/tcp/2 (the name does not resolve) then b/udp/2
\* (no scapy)
ErrInputs ==
    {[targets |-> <<"b">>, ports |-> <<"2">>, tcp |-> TRUE, udp |-> TRUE,
      tcp_mode |-> "connect", timeout |-> <<"2">>, threads |-> <<"2">>]}

\* the forms of the order specification: two targets by two ports typed in
\* descending order, and one target by two ports by both protocols, with one
\* worker each; and the pool form, two workers on two jobs
OrderInputs ==
    {[targets |-> <<"b", ",", "a">>, ports |-> <<"2", ",", "1">>, tcp |-> TRUE,
      udp |-> FALSE, tcp_mode |-> "connect", timeout |-> <<"2">>, threads |-> <<"1">>],
     [targets |-> <<"a">>, ports |-> <<"2", ",", "1">>, tcp |-> TRUE,
      udp |-> TRUE, tcp_mode |-> "connect", timeout |-> <<"2">>, threads |-> <<"1">>]}
        \cup PoolInputs

\* the network of the model: what a probe of (target, port) meets
NetOutcome(target, port) ==
    IF target = <<"b">> THEN "resolve_fail"
    ELSE IF port = 1 THEN "established" ELSE "timeout"

NetReply(target, proto, port) ==
    IF target = <<"b">> THEN [kind |-> "none", flags |-> 0]
    ELSE IF proto = "udp" THEN [kind |-> "udp", flags |-> 0]
    ELSE IF port = 1 THEN [kind |-> "tcp", flags |-> SYN + ACK]
    ELSE [kind |-> "tcp", flags |-> RST + ACK]

\* a filling order that puts the UDP job of a (target, port) first
ProtoJobsUdpFirst(t, p, tcp, udp) ==
    (IF udp THEN <<<<t, "udp", p>>>> ELSE <<>>)
        \o (IF tcp THEN <<<<t, "tcp", p>>>> ELSE <<>>)

\* the two taskq.put of one (target, port)
ProtoJobs(t, p, tcp, udp) ==
    (IF tcp THEN <<<<t, "tcp", p>>>> ELSE <<>>)
        \o (IF udp THEN <<<<t, "udp", p>>>> ELSE <<>>)

\* the queue start_scan fills: targets outer, ports middle, tcp before udp
BuildQueue(targets, ports, tcp, udp) ==
    Flatten([i \in 1..Len(targets) |->
        Flatten([j \in 1..Len(ports) |-> ProtoJobs(targets[i], ports[j], tcp, udp)])])

ThreadCap == 500

DefaultThreads == 50

\* max(1, min(500, n))
ClampThreads(n) == Max(1, Min(ThreadCap, n))

\* num_threads of start_scan, clamped once more by run_workers
NumThreads(text) ==
    ClampThreads(IF IntOk(text) THEN ClampThreads(IntVal(text)) ELSE DefaultThreads)

VARIABLES
    scapy,        \* SCAPY_AVAILABLE, fixed when the module is imported
    after_fails,  \* root.after may raise when a worker thread calls it
    errorbox,     \* the text messagebox.showerror displayed in the last start_scan, or "none"
    scanning,     \* self.scanning
    stop_event,   \* self.stop_event, one Event object for every run
    results,      \* self.results: the list object the attribute is bound to
    lists,        \* the list objects created so far, by identity
    tree,         \* the rows of self.tree
    start_btn,    \* state of the Iniciar button
    stop_btn,     \* state of the Parar button
    status_var,   \* self.status_var
    afterq,       \* callbacks registered with root.after(0, ...), in order
    nruns,        \* runs begun so far
    clicks,       \* button presses the behaviour may still take
    taskq,        \* per run: the items left in its queue.Queue, oldest first
    settings,     \* per run: tcp_mode of its settings dict
    num_threads,  \* per run: the argument of run_workers
    rw_pc,        \* per run: where its run_workers thread is
    spawned,      \* per run: workers started so far
    w_pc,         \* per run and worker: where the worker is
    w_results,    \* per run and worker: the list object it was given
    w_job,        \* per run and worker: the index of the item it holds
    jobs,         \* history: per run, the queue as start_scan filled it
    job_count,    \* history: per run, targets x ports x protocols ticked
    stop_req,     \* history: per run, stop_scan was called while it was live
    hist,         \* history: per run and item, times dequeued, probed, recorded
    late,         \* history: per run and worker, its item was dequeued after a stop
    done_count,   \* history: per run, times scan_done was registered
    signalled,    \* history: per run, its scan_done callback has run
    form,         \* history: per run, the contents of the form when Iniciar was pressed
    produced,     \* history: per run, the records its workers appended, in order
    ports_text,   \* the text handed to parse_ports
    ports_out,    \* the list parse_ports returned
    ports_pc,     \* "ready" before the call, "done" after it
    targets_text, \* the text handed to parse_targets
    targets_out,  \* the list parse_targets returned
    targets_pc,   \* "ready" before the call, "done" after it
    raw_in,       \* the probe function called, the capability flag, what it meets
    raw_out,      \* what the probe function returned
    raw_pc,       \* "ready" before the call, "done" after it
    pr_pc,        \* where the running tcp_connect_scan call is
    pr_in,        \* what the call meets: connection outcome, timeout argument
    pr_sock,      \* the socket the running call created: none, open, closed
    pr_result,    \* the local variable result
    pr_ret,       \* the (state, info) pair the call returned
    pr_open,      \* sockets of finished calls that are still open
    pr_left       \* calls the behaviour may still make

guiVars == <<scapy, after_fails, errorbox, scanning, stop_event, results, lists, tree, start_btn, stop_btn,
             status_var, afterq, nruns, clicks, taskq, settings, num_threads,
             rw_pc, spawned, w_pc, w_results, w_job, jobs, job_count, stop_req, hist,
             late, done_count, signalled, form, produced>>

portVars == <<ports_text, ports_out, ports_pc>>

probeVars == <<pr_pc, pr_in, pr_sock, pr_result, pr_ret, pr_open, pr_left>>

targetVars == <<targets_text, targets_out, targets_pc>>

rawVars == <<raw_in, raw_out, raw_pc>>

fnVars == <<portVars, targetVars, rawVars, probeVars>>

vars == <<guiVars, fnVars>>

\* a list object no live thread and no attribute refers to is freed
Collect(ls, res, wres) ==
    [i \in DOMAIN ls |->
        IF i = res \/ \E r \in Runs, k \in Slots : wres[r][k] = i THEN ls[i] ELSE <<>>]

NoHist == [deq |-> 0, probed |-> 0, recorded |-> 0]

\* MeltScanApp.__init__, before any thread exists
GuiBase ==
    /\ scapy = FALSE
    /\ errorbox = "none"
    /\ scanning = FALSE
    /\ stop_event = FALSE
    /\ results = 1
    /\ lists = <<<<>>>>
    /\ tree = <<>>
    /\ start_btn = "normal"
    /\ stop_btn = "disabled"
    /\ status_var = "Pronto"
    /\ afterq = <<>>
    /\ nruns = 0
    /\ taskq = [r \in Runs |-> <<>>]
    /\ settings = [r \in Runs |-> "connect"]
    /\ num_threads = [r \in Runs |-> 0]
    /\ rw_pc = [r \in Runs |-> "none"]
    /\ spawned = [r \in Runs |-> 0]
    /\ w_pc = [r \in Runs |-> [k \in Slots |-> "none"]]
    /\ w_results = [r \in Runs |-> [k \in Slots |-> 0]]
    /\ w_job = [r \in Runs |-> [k \in Slots |-> 0]]
    /\ jobs = [r \in Runs |-> <<>>]
    /\ job_count = [r \in Runs |-> 0]
    /\ stop_req = [r \in Runs |-> FALSE]
    /\ hist = [r \in Runs |-> <<>>]
    /\ late = [r \in Runs |-> [k \in Slots |-> FALSE]]
    /\ done_count = [r \in Runs |-> 0]
    /\ signalled = [r \in Runs |-> FALSE]
    /\ form = [r \in Runs |-> <<>>]
    /\ produced = [r \in Runs |-> <<>>]

\* an application whose main loop accepts every root.after
GuiInit == GuiBase /\ after_fails = FALSE

PortsIdle == ports_text = <<>> /\ ports_out = <<>> /\ ports_pc = "off"

NoCall == [outcome |-> "none", timeout_ok |-> TRUE]

NoRet == [state |-> "none", info |-> ""]

ProbeIdle ==
    /\ pr_pc = "off"
    /\ pr_in = NoCall
    /\ pr_sock = "none"
    /\ pr_result = 0
    /\ pr_ret = NoRet
    /\ pr_open = 0
    /\ pr_left = 0

TargetsIdle == targets_text = <<>> /\ targets_out = <<>> /\ targets_pc = "off"

NoProbeCall ==
    [fn |-> "none", scapy |-> FALSE, outcome |-> "none",
     reply |-> [kind |-> "none", flags |-> 0]]

RawIdle == raw_in = NoProbeCall /\ raw_out = NoRet /\ raw_pc = "off"

FnIdle == PortsIdle /\ TargetsIdle /\ RawIdle /\ ProbeIdle

Init == GuiInit /\ clicks = MaxClicks /\ FnIdle

\* early returns that leave out the test of the port list
StartRejectedNoPorts(inp) ==
    \/ scanning
    \/ parse_targets(Strip(inp.targets)) = <<>>

\* start_scan's early returns
StartRejected(inp) ==
    \/ scanning
    \/ parse_targets(Strip(inp.targets)) = <<>>
    \/ parse_ports(Strip(inp.ports)) = <<>> /\ (inp.tcp \/ inp.udp)

\* a run that was begun and whose scan_done callback has not run yet
RunLive(r) == rw_pc[r] # "none" /\ ~signalled[r]

\* number of protocols ticked
ProtoCount(inp) == (IF inp.tcp THEN 1 ELSE 0) + (IF inp.udp THEN 1 ELSE 0)

\* the message of the error dialog start_scan shows before an early return
ErrorText(inp) ==
    IF parse_targets(Strip(inp.targets)) = <<>>
    THEN "Nenhum alvo valido fornecido."
    ELSE "Nenhuma porta valida fornecida."

\* the Iniciar button
start_scan(inp) ==
    IF scanning
    THEN UNCHANGED vars
    ELSE IF StartRejected(inp)
    THEN \* messagebox.showerror, then return
         /\ errorbox' = ErrorText(inp)
         /\ UNCHANGED <<scapy, after_fails, scanning, stop_event, results, lists, tree,
                        start_btn, stop_btn, status_var, afterq, nruns, clicks, taskq,
                        settings, num_threads, rw_pc, spawned, w_pc, w_results, w_job,
                        jobs, job_count, stop_req, hist, late, done_count, signalled,
                        form, produced, fnVars>>
    ELSE LET r == nruns + 1
             targets == parse_targets(Strip(inp.targets))
             ports == parse_ports(Strip(inp.ports))
             q == BuildQueue(targets, ports, inp.tcp, inp.udp)
         IN /\ clicks > 0
            /\ clicks' = clicks - 1
            /\ errorbox' = "none"
            \* self.clear_results()
            /\ tree' = <<>>
            /\ lists' = Collect(Append(lists, <<>>), Len(lists) + 1, w_results)
            /\ results' = Len(lists) + 1
            /\ scanning' = TRUE
            /\ stop_event' = FALSE
            /\ start_btn' = "disabled"
            /\ stop_btn' = "normal"
            /\ status_var' = "Varredura em andamento..."
            /\ IF ~FloatOk(inp.timeout)
               THEN \* float() raises: the handler ends here, no thread is started
                    UNCHANGED <<taskq, settings, num_threads, rw_pc, nruns, jobs,
                                job_count, hist, form>>
               ELSE /\ NumThreads(inp.threads) <= MaxThreads
                    \* an item of the queue is named by its place in the filling order
                    /\ taskq' = [taskq EXCEPT ![r] = [i \in 1..Len(q) |-> i]]
                    /\ settings' = [settings EXCEPT ![r] = inp.tcp_mode]
                    /\ num_threads' = [num_threads EXCEPT ![r] = NumThreads(inp.threads)]
                    /\ rw_pc' = [rw_pc EXCEPT ![r] = "spawn"]
                    /\ nruns' = r
                    /\ jobs' = [jobs EXCEPT ![r] = q]
                    /\ job_count' = [job_count EXCEPT ![r] =
                                        Len(targets) * Len(ports) * ProtoCount(inp)]
                    /\ hist' = [hist EXCEPT ![r] = [i \in 1..Len(q) |-> NoHist]]
                    /\ form' = [form EXCEPT ![r] = inp]
            /\ UNCHANGED <<scapy, after_fails, afterq, spawned, w_pc, w_results, w_job,
                           stop_req, late, done_count, signalled, produced, fnVars>>

\* the Parar button
stop_scan ==
    IF ~scanning
    THEN UNCHANGED vars
    ELSE /\ clicks > 0
         /\ clicks' = clicks - 1
         /\ stop_event' = TRUE
         /\ status_var' = "Interrompido"
         /\ start_btn' = "normal"
         /\ stop_btn' = "disabled"
         /\ scanning' = FALSE
         /\ stop_req' = [r \in Runs |-> stop_req[r] \/ RunLive(r)]
         /\ UNCHANGED <<scapy, after_fails, errorbox, results, lists, tree, afterq, nruns, taskq,
                        settings, num_threads, rw_pc, spawned, w_pc, w_results,
                        w_job, jobs, job_count, hist, late, done_count, signalled, form, produced, fnVars>>

\* the Limpar button
clear_results ==
    /\ clicks > 0
    /\ clicks' = clicks - 1
    /\ tree' = <<>>
    /\ lists' = Collect(Append(lists, <<>>), Len(lists) + 1, w_results)
    /\ results' = Len(lists) + 1
    /\ status_var' = "Resultados limpos"
    /\ UNCHANGED <<scapy, after_fails, errorbox, scanning, stop_event, start_btn, stop_btn, afterq, nruns,
                   taskq, settings, num_threads, rw_pc, spawned, w_pc, w_results,
                   w_job, jobs, job_count, stop_req, hist, late, done_count, signalled, form, produced, fnVars>>

\* one iteration of run_workers' first loop: a worker thread is created with
\* the list self.results is bound to at that moment, and started
run_workers_spawn(r) ==
    /\ rw_pc[r] = "spawn"
    /\ LET k == spawned[r] + 1
       IN /\ w_pc' = [w_pc EXCEPT ![r][k] = "loop"]
          /\ w_results' = [w_results EXCEPT ![r][k] = results]
          /\ spawned' = [spawned EXCEPT ![r] = k]
          /\ rw_pc' = [rw_pc EXCEPT ![r] = IF k = num_threads[r] THEN "join" ELSE "spawn"]
    /\ UNCHANGED <<scapy, after_fails, errorbox, scanning, stop_event, results, lists, tree, start_btn,
                   stop_btn, status_var, afterq, nruns, clicks, taskq, settings,
                   num_threads, w_job, jobs, job_count, stop_req, hist, late, done_count,
                   signalled, form, produced, fnVars>>

\* a run_workers that joins nothing
AllJoinedNoWait(r) == TRUE

\* every th.join() of run_workers has returned
AllJoined(r) == \A k \in 1..spawned[r] : w_pc[r][k] = "exit"

\* run_workers' second loop and its root.after(0, self.scan_done)
run_workers_join(r) ==
    /\ rw_pc[r] = "join"
    /\ AllJoined(r)
    /\ afterq' = Append(afterq, [cb |-> "scan_done", run |-> r])
    /\ rw_pc' = [rw_pc EXCEPT ![r] = "done"]
    /\ done_count' = [done_count EXCEPT ![r] = @ + 1]
    \* the thread ends: its queue is unreachable from now on
    /\ taskq' = [taskq EXCEPT ![r] = <<>>]
    /\ UNCHANGED <<scapy, after_fails, errorbox, scanning, stop_event, results, lists, tree, start_btn,
                   stop_btn, status_var, nruns, clicks, settings,
                   num_threads, spawned, w_pc, w_results, w_job, jobs, job_count, stop_req,
                   hist, late, signalled, form, produced, fnVars>>

\* a get that leaves the item in the queue
QueueGetKeep(q) == [item |-> Head(q), rest |-> q]

\* a get that takes the newest item
QueueGetLast(q) == [item |-> q[Len(q)], rest |-> SubSeq(q, 1, Len(q) - 1)]

\* taskq.get_nowait(): the item taken and the queue left
QueueGet(q) == [item |-> Head(q), rest |-> Tail(q)]

\* worker: the test of the while loop
worker_loop(r, k) ==
    /\ w_pc[r][k] = "loop"
    /\ IF stop_event
       THEN /\ w_pc' = [w_pc EXCEPT ![r][k] = "exit"]
            \* the thread ends and its locals with it
            /\ w_results' = [w_results EXCEPT ![r][k] = 0]
            /\ lists' = Collect(lists, results, w_results')
       ELSE /\ w_pc' = [w_pc EXCEPT ![r][k] = "get"]
            /\ UNCHANGED <<w_results, lists>>
    /\ UNCHANGED <<scapy, after_fails, errorbox, scanning, stop_event, results, tree, start_btn,
                   stop_btn, status_var, afterq, nruns, clicks, taskq, settings,
                   num_threads, rw_pc, spawned, w_job, jobs, job_count, stop_req,
                   hist, late, done_count, signalled, form, produced, fnVars>>

\* worker: taskq.get_nowait(), leaving the loop on queue.Empty
worker_get(r, k) ==
    /\ w_pc[r][k] = "get"
    /\ IF taskq[r] = <<>>
       THEN /\ w_pc' = [w_pc EXCEPT ![r][k] = "exit"]
            /\ w_results' = [w_results EXCEPT ![r][k] = 0]
            /\ lists' = Collect(lists, results, w_results')
            /\ UNCHANGED <<taskq, w_job, hist, late>>
       ELSE LET g == QueueGet(taskq[r])
            IN /\ taskq' = [taskq EXCEPT ![r] = g.rest]
               /\ w_job' = [w_job EXCEPT ![r][k] = g.item]
               /\ w_pc' = [w_pc EXCEPT ![r][k] = "got"]
               /\ hist' = [hist EXCEPT ![r][g.item].deq = @ + 1]
               /\ late' = [late EXCEPT ![r][k] = stop_req[r]]
               /\ UNCHANGED <<w_results, lists>>
    /\ UNCHANGED <<scapy, after_fails, errorbox, scanning, stop_event, results, tree, start_btn,
                   stop_btn, status_var, afterq, nruns, clicks, settings,
                   num_threads, rw_pc, spawned, jobs, job_count, stop_req,
                   done_count, signalled, form, produced, fnVars>>

\* worker: the second test of stop_event, after the item was taken
worker_check(r, k) ==
    /\ w_pc[r][k] = "got"
    /\ IF stop_event
       THEN /\ w_pc' = [w_pc EXCEPT ![r][k] = "exit"]
            /\ w_results' = [w_results EXCEPT ![r][k] = 0]
            /\ w_job' = [w_job EXCEPT ![r][k] = 0]
            /\ late' = [late EXCEPT ![r][k] = FALSE]
            /\ lists' = Collect(lists, results, w_results')
            /\ UNCHANGED hist
       ELSE /\ w_pc' = [w_pc EXCEPT ![r][k] = "probe"]
            /\ hist' = [hist EXCEPT ![r][w_job[r][k]].probed = @ + 1]
            /\ UNCHANGED <<w_results, w_job, late, lists>>
    /\ UNCHANGED <<scapy, after_fails, errorbox, scanning, stop_event, results, tree, start_btn,
                   stop_btn, status_var, afterq, nruns, clicks, taskq, settings,
                   num_threads, rw_pc, spawned, jobs, job_count, stop_req,
                   done_count, signalled, form, produced, fnVars>>

\* the ScanResult a worker builds for the item it holds
ResultOf(r, k) ==
    LET job == jobs[r][w_job[r][k]]
        p == RunProbe(scapy, settings[r], job[2], NetOutcome(job[1], job[3]),
                      NetReply(job[1], job[2], job[3]))
    IN [target |-> job[1], proto |-> job[2], port |-> job[3],
        state |-> p.state, info |-> p.info]

\* log_result: the row handed to root.after(0, ...)
RowOf(res) ==
    [cb |-> "insert", target |-> res.target, proto |-> res.proto, port |-> res.port,
     estado |-> traduz_estado(res.state), info |-> res.info]

\* worker: the probe returns, results.append, logfn, task_done
worker_probe(r, k) ==
    /\ w_pc[r][k] = "probe"
    /\ lists' = [lists EXCEPT ![w_results[r][k]] = Append(@, ResultOf(r, k))]
    \* logfn: an exception of root.after is swallowed, the row is lost
    /\ \/ afterq' = Append(afterq, RowOf(ResultOf(r, k)))
       \/ after_fails /\ afterq' = afterq
    /\ hist' = [hist EXCEPT ![r][w_job[r][k]].recorded = @ + 1]
    /\ produced' = [produced EXCEPT ![r] = Append(@, ResultOf(r, k))]
    /\ w_pc' = [w_pc EXCEPT ![r][k] = "loop"]
    /\ w_job' = [w_job EXCEPT ![r][k] = 0]
    /\ late' = [late EXCEPT ![r][k] = FALSE]
    /\ UNCHANGED <<scapy, after_fails, errorbox, scanning, stop_event, results, tree, start_btn, stop_btn,
                   status_var, nruns, clicks, taskq, settings, num_threads, rw_pc,
                   spawned, w_results, jobs, job_count, stop_req, done_count,
                   signalled, form, fnVars>>

\* scan_done, run by the main loop
scan_done(r) ==
    /\ scanning' = FALSE
    /\ start_btn' = "normal"
    /\ stop_btn' = "disabled"
    /\ status_var' = "Concluido"
    /\ signalled' = [signalled EXCEPT ![r] = TRUE]
    /\ UNCHANGED tree

\* _insert_tree, run by the main loop
insert_tree(row) ==
    /\ tree' = Append(tree, [target |-> row.target, proto |-> row.proto,
                             port |-> row.port, estado |-> row.estado,
                             info |-> row.info])
    /\ UNCHANGED <<scanning, start_btn, stop_btn, status_var, signalled>>

\* the main loop runs the oldest registered callback
after_callback ==
    /\ afterq # <<>>
    /\ afterq' = Tail(afterq)
    /\ IF Head(afterq).cb = "scan_done"
       THEN scan_done(Head(afterq).run)
       ELSE insert_tree(Head(afterq))
    /\ UNCHANGED <<scapy, after_fails, errorbox, stop_event, results, lists, nruns, clicks, taskq,
                   settings, num_threads, rw_pc, spawned, w_pc, w_results, w_job,
                   jobs, job_count, stop_req, hist, late, done_count, form, produced, fnVars>>

GuiNext(inputs) ==
    \/ \E inp \in inputs : start_scan(inp)
    \/ stop_scan
    \/ clear_results
    \/ after_callback
    \/ \E r \in Runs : run_workers_spawn(r)
    \/ \E r \in Runs : run_workers_join(r)
    \/ \E r \in Runs, k \in Slots : worker_loop(r, k)
    \/ \E r \in Runs, k \in Slots : worker_get(r, k)
    \/ \E r \in Runs, k \in Slots : worker_check(r, k)
    \/ \E r \in Runs, k \in Slots : worker_probe(r, k)

Next == GuiNext(StartInputs)

Spec == Init /\ [][Next]_vars

PoolInit == GuiInit /\ clicks = PoolClicks /\ FnIdle

PoolNext == GuiNext(PoolInputs)

PoolSpec == PoolInit /\ [][PoolNext]_vars


(***************************************************************************)
(* Fairness: every thread that can take a step eventually takes it (each   *)
(* probe call returns, the operating system schedules every thread).       *)
(* Nothing is assumed of the user or of the main loop.                     *)
(***************************************************************************)
FairClicks == 2

ThreadFairness ==
    /\ \A r \in Runs : WF_vars(run_workers_spawn(r))
    /\ \A r \in Runs : WF_vars(run_workers_join(r))
    /\ \A r \in Runs, k \in Slots : WF_vars(worker_loop(r, k))
    /\ \A r \in Runs, k \in Slots : WF_vars(worker_get(r, k))
    /\ \A r \in Runs, k \in Slots : WF_vars(worker_check(r, k))
    /\ \A r \in Runs, k \in Slots : WF_vars(worker_probe(r, k))

FairInit == GuiInit /\ clicks = FairClicks /\ FnIdle

FairNext == GuiNext(FairInputs)

FairSpec == FairInit /\ [][FairNext]_vars /\ ThreadFairness

(***************************************************************************)
(* Failing probes and a failing sink: every probe of the run ends in an    *)
(* error and root.after may raise in the worker threads.                   *)
(***************************************************************************)
ErrClicks == 2

ErrInit == GuiBase /\ after_fails = TRUE /\ clicks = ErrClicks /\ FnIdle

ErrNext == GuiNext(ErrInputs)

ErrSpec == ErrInit /\ [][ErrNext]_vars /\ ThreadFairness

(***************************************************************************)
(* The order of the queue: runs of four jobs.                              *)
(***************************************************************************)
OrderClicks == 2

OrderInit == GuiInit /\ clicks = OrderClicks /\ FnIdle

OrderNext == GuiNext(OrderInputs)

OrderSpec == OrderInit /\ [][OrderNext]_vars

(***************************************************************************)
(* Starts that are turned down: a form that runs one job, a form whose      *)
(* targets resolve to nothing and a form whose ports resolve to nothing.    *)
(***************************************************************************)
RejectClicks == 2

RejectInit == GuiInit /\ clicks = RejectClicks /\ FnIdle

RejectNext == GuiNext(RejectInputs)

RejectSpec == RejectInit /\ [][RejectNext]_vars

(***************************************************************************)
(* The graphical engine against the command-line program.                  *)
(***************************************************************************)
RefineClicks == 2

RefineInit == GuiInit /\ clicks = RefineClicks /\ FnIdle

RefineNext == GuiNext(RefineInputs)

RefineSpec == RefineInit /\ [][RefineNext]_vars

(***************************************************************************)
(* meltscan_cli.py: main, on the network of the model.                     *)
(***************************************************************************)
\* the command line that carries the contents of a form
CliArgs(inp) ==
    [target |-> inp.targets, ports |-> inp.ports, tcp |-> inp.tcp, udp |-> inp.udp,
     syn |-> inp.tcp_mode = "syn", timeout |-> inp.timeout]

\* the fields of one line of results: target, TCP or UDP, port, state, info
CliLine(target, label, port, p) == <<target, label, NatStr(port), p.state, p.info>>

\* the body of main's inner loop for one (target, port)
CliPort(args, scapy_available, target, port) ==
    (IF args.tcp
     THEN <<CliLine(target, "TCP", port,
                    IF args.syn
                    THEN tcp_syn_scan(scapy_available, NetOutcome(target, port),
                                      NetReply(target, "tcp", port))
                    ELSE tcp_connect_scan(NetOutcome(target, port)))>>
     ELSE <<>>)
    \o (IF args.udp
        THEN <<CliLine(target, "UDP", port,
                       udp_scan(scapy_available, NetReply(target, "udp", port)))>>
        ELSE <<>>)

\* main: the exit status and the list results
cli_main(args, scapy_available) ==
    LET targets == parse_targets(args.target)
        ports == parse_ports(args.ports)
    IN IF ~FloatOk(args.timeout) THEN [exit |-> 2, results |-> <<>>]
       ELSE IF ~args.tcp /\ ~args.udp THEN [exit |-> 1, results |-> <<>>]
       ELSE IF targets = <<>> THEN [exit |-> 1, results |-> <<>>]
       ELSE IF ports = <<>> THEN [exit |-> 1, results |-> <<>>]
       ELSE [exit |-> 0,
             results |-> Flatten([i \in 1..Len(targets) |->
                Flatten([j \in 1..Len(ports) |->
                    CliPort(args, scapy_available, targets[i], ports[j])])])]

(***************************************************************************)
(* parse_ports on its own: one call on a text of the port field.           *)
(***************************************************************************)
MaxTokens == 2

\* what a user may type between two separators
PortTokens ==
    {<<"0">>, <<"1">>, <<"2">>, <<"x">>, <<>>, <<" ", "2", " ">>,
     <<"6", "5", "5", "3", "5">>, <<"6", "5", "5", "3", "6">>,
     <<"1", "-", "2">>, <<"2", "-", "1">>, <<"0", "-", "2">>, <<"5", "-", "0">>,
     <<"-", "1">>, <<"2", "-">>, <<"a", "-", "2">>, <<"1", "-", "2", "-", "3">>,
     <<"6", "5", "5", "3", "4", "-", "6", "5", "5", "3", "6">>,
     <<"6", "5", "5", "3", "7", "-", "6", "5", "5", "3", "6">>}

RECURSIVE JoinTokens(_)
JoinTokens(ts) ==
    IF Len(ts) = 1 THEN ts[1] ELSE ts[1] \o <<",">> \o JoinTokens(Tail(ts))

PortTexts == {JoinTokens(ts) : ts \in UNION {[1..n -> PortTokens] : n \in 1..MaxTokens}}

PortsInit ==
    /\ GuiInit /\ clicks = 0 /\ TargetsIdle /\ RawIdle /\ ProbeIdle
    /\ ports_text \in PortTexts
    /\ ports_out = <<>>
    /\ ports_pc = "ready"

\* ports = parse_ports(ports_text)
ports_call ==
    /\ ports_pc = "ready"
    /\ ports_out' = parse_ports(ports_text)
    /\ ports_pc' = "done"
    /\ UNCHANGED <<guiVars, targetVars, rawVars, probeVars, ports_text>>

PortsNext == ports_call

PortsSpec == PortsInit /\ [][PortsNext]_vars

(***************************************************************************)
(* parse_targets on its own: one call on a text of the target box.         *)
(***************************************************************************)
\* what a user may type between two separators of the target box
TargetTokens ==
    {<<"a">>, <<"b">>, <<" ", "a", " ">>, <<"a", " ", "b">>, <<>>, <<"a", "/", "b">>,
     <<"b", ";", "\n", "a">>,
     <<"1", "0", ".", "0", ".", "0", ".", "5", "/", "3", "0">>,
     <<"1", "0", ".", "0", ".", "0", ".", "4", "/", "3", "1">>,
     <<"1", "0", ".", "0", ".", "0", ".", "1", "/", "3", "2">>,
     <<"1", "0", ".", "0", ".", "0", ".", "1", "/", "3", "3">>,
     <<"1", "0", ".", "0", ".", "0", "/", "3", "0">>}

TargetTexts ==
    {JoinTokens(ts) : ts \in UNION {[1..n -> TargetTokens] : n \in 1..MaxTokens}}

TargetsInit ==
    /\ GuiInit /\ clicks = 0 /\ PortsIdle /\ RawIdle /\ ProbeIdle
    /\ targets_text \in TargetTexts
    /\ targets_out = <<>>
    /\ targets_pc = "ready"

\* targets = parse_targets(targets_text)
targets_call ==
    /\ targets_pc = "ready"
    /\ targets_out' = parse_targets(targets_text)
    /\ targets_pc' = "done"
    /\ UNCHANGED <<guiVars, portVars, rawVars, probeVars, targets_text>>

TargetsNext == targets_call

TargetsSpec == TargetsInit /\ [][TargetsNext]_vars

(***************************************************************************)
(* The probe functions on their own: one call of tcp_connect_scan,         *)
(* tcp_syn_scan or udp_scan, with or without scapy, on every connection    *)
(* outcome and every reply of Replies.                                     *)
(***************************************************************************)
ProbeFns == {"tcp_connect_scan", "tcp_syn_scan", "udp_scan"}

RawInit ==
    /\ GuiInit /\ clicks = 0 /\ PortsIdle /\ TargetsIdle /\ ProbeIdle
    /\ raw_in \in [fn : ProbeFns, scapy : BOOLEAN, outcome : ConnOutcomes, reply : Replies]
    /\ raw_out = NoRet
    /\ raw_pc = "ready"

\* state, info = fn(target, port, timeout)
raw_call ==
    /\ raw_pc = "ready"
    /\ raw_out' =
          CASE raw_in.fn = "tcp_connect_scan" -> tcp_connect_scan(raw_in.outcome)
            [] raw_in.fn = "tcp_syn_scan" ->
                  tcp_syn_scan(raw_in.scapy, raw_in.outcome, raw_in.reply)
            [] OTHER -> udp_scan(raw_in.scapy, raw_in.reply)
    /\ raw_pc' = "done"
    /\ UNCHANGED <<guiVars, portVars, targetVars, probeVars, raw_in>>

RawNext == raw_call

RawSpec == RawInit /\ [][RawNext]_vars

(***************************************************************************)
(* tcp_connect_scan statement by statement, called MaxProbes times in a    *)
(* row.  A socket object that was never closed stays open until the        *)
(* interpreter finalizes it, which may happen at any later moment.         *)
(***************************************************************************)
MaxProbes == 2

ProbeInit ==
    /\ GuiInit /\ clicks = 0 /\ PortsIdle /\ TargetsIdle /\ RawIdle
    /\ pr_pc = "idle"
    /\ pr_in = NoCall
    /\ pr_sock = "none"
    /\ pr_result = 0
    /\ pr_ret = NoRet
    /\ pr_open = 0
    /\ pr_left = MaxProbes

\* the caller invokes tcp_connect_scan(target, port, timeout); a socket the
\* previous call left open is now owned by no frame
probe_call(outcome, timeout_ok) ==
    /\ pr_pc \in {"idle", "returned"}
    /\ pr_left > 0
    /\ pr_left' = pr_left - 1
    /\ pr_in' = [outcome |-> outcome, timeout_ok |-> timeout_ok]
    /\ pr_open' = pr_open + (IF pr_sock = "open" THEN 1 ELSE 0)
    /\ pr_sock' = "none"
    /\ pr_result' = 0
    /\ pr_ret' = NoRet
    /\ pr_pc' = "socket"
    /\ UNCHANGED <<guiVars, portVars, targetVars, rawVars>>

\* sock = socket.socket(AF_INET, SOCK_STREAM)
probe_socket ==
    /\ pr_pc = "socket"
    /\ pr_sock' = "open"
    /\ pr_pc' = "settimeout"
    /\ UNCHANGED <<guiVars, portVars, targetVars, rawVars, pr_in, pr_result, pr_ret, pr_open, pr_left>>

\* sock.settimeout(timeout): a negative timeout raises ValueError
probe_settimeout ==
    /\ pr_pc = "settimeout"
    /\ pr_pc' = IF pr_in.timeout_ok THEN "connect" ELSE "except"
    /\ UNCHANGED <<guiVars, portVars, targetVars, rawVars, pr_in, pr_sock, pr_result, pr_ret, pr_open, pr_left>>

\* result = sock.connect_ex((target, port))
probe_connect ==
    /\ pr_pc = "connect"
    /\ LET c == connect_ex(pr_in.outcome)
       IN IF c.raised
          THEN pr_pc' = "except" /\ UNCHANGED pr_result
          ELSE pr_pc' = "close" /\ pr_result' = c.result
    /\ UNCHANGED <<guiVars, portVars, targetVars, rawVars, pr_in, pr_sock, pr_ret, pr_open, pr_left>>

\* sock.close()
probe_close ==
    /\ pr_pc = "close"
    /\ pr_sock' = "closed"
    /\ pr_pc' = "branch"
    /\ UNCHANGED <<guiVars, portVars, targetVars, rawVars, pr_in, pr_result, pr_ret, pr_open, pr_left>>

\* if result == 0: return "open", ""  else: return "closed", ""
probe_return ==
    /\ pr_pc = "branch"
    /\ pr_ret' = [state |-> ConnectState(pr_result), info |-> ""]
    /\ pr_pc' = "returned"
    /\ UNCHANGED <<guiVars, portVars, targetVars, rawVars, pr_in, pr_sock, pr_result, pr_open, pr_left>>

\* except Exception as e: return "unknown", str(e)
probe_except ==
    /\ pr_pc = "except"
    /\ pr_ret' = [state |-> "unknown",
                  info |-> IF pr_in.timeout_ok THEN ErrText(pr_in.outcome)
                           ELSE "Timeout value out of range"]
    /\ pr_pc' = "returned"
    /\ UNCHANGED <<guiVars, portVars, targetVars, rawVars, pr_in, pr_sock, pr_result, pr_open, pr_left>>

\* the interpreter finalizes a socket object nothing refers to any more
\* (the frame of a finished call, or an earlier one), closing it
probe_finalize ==
    /\ \/ /\ pr_pc = "returned" /\ pr_sock = "open"
          /\ pr_sock' = "closed"
          /\ UNCHANGED pr_open
       \/ /\ pr_open > 0
          /\ pr_open' = pr_open - 1
          /\ UNCHANGED pr_sock
    /\ UNCHANGED <<guiVars, portVars, targetVars, rawVars, pr_pc, pr_in, pr_result, pr_ret, pr_left>>

ProbeNext ==
    \/ \E outcome \in ConnOutcomes, timeout_ok \in BOOLEAN : probe_call(outcome, timeout_ok)
    \/ probe_socket
    \/ probe_settimeout
    \/ probe_connect
    \/ probe_close
    \/ probe_return
    \/ probe_except
    \/ probe_finalize

ProbeSpec == ProbeInit /\ [][ProbeNext]_vars

(***************************************************************************)
(* Properties                                                              *)
(***************************************************************************)
\* self.results as a sequence of records
Results == lists[results]

Triple(rec) == <<rec.target, rec.proto, rec.port>>

\* the scan_done callback of run r is the step being taken
ScanDoneOf(r) ==
    /\ afterq # <<>>
    /\ Head(afterq) = [cb |-> "scan_done", run |-> r]
    /\ after_callback

\* C1: when scan_done runs for a run on which stop_scan was never called,
\* self.results holds len(targets) * len(ports) * (protocols ticked) records
C1_JobCountAtCompletion ==
    [][\A r \in Runs : (ScanDoneOf(r) /\ ~stop_req[r]) => Len(Results) = job_count[r]]_vars

\* C2: a job dequeued after stop_scan was called on its run is never probed
C2_NoProbeAfterStop ==
    \A r \in Runs, k \in Slots : w_pc[r][k] = "probe" => ~late[r][k]

\* C3: once stop_scan was called on the run in progress, self.results holds
\* at most its full job count of records, each one a job of that run
C3_CancelledResultsAreJobs ==
    (nruns > 0 /\ stop_req[nruns]) =>
        /\ Len(Results) <= job_count[nruns]
        /\ \A i \in 1..Len(Results) : Triple(Results[i]) \in Range(jobs[nruns])

\* C4: no (target, protocol, port) occurs twice in self.results
C4_NoDuplicateTriples ==
    \A i, j \in 1..Len(Results) :
        Triple(Results[i]) = Triple(Results[j]) => i = j

\* the queue items of run r
Items(r) == DOMAIN hist[r]

\* C5: every queue item is dequeued at most once, held by at most one worker,
\* probed and recorded only after it was dequeued and at most once; when a
\* run that was not cancelled completes, every item of its queue was
\* dequeued, probed and recorded exactly once
C5_SingleConsumer ==
    \A r \in Runs :
        /\ \A i \in Items(r) :
              /\ hist[r][i].deq <= 1
              /\ hist[r][i].probed <= hist[r][i].deq
              /\ hist[r][i].recorded <= hist[r][i].probed
        /\ \A k1, k2 \in Slots :
              (w_job[r][k1] # 0 /\ w_job[r][k1] = w_job[r][k2]) => k1 = k2
        /\ (rw_pc[r] = "done" /\ ~stop_req[r]) =>
              \A i \in Items(r) : hist[r][i] = [deq |-> 1, probed |-> 1, recorded |-> 1]

\* a run of two jobs and two workers completed without a stop, each worker
\* having taken an item
C5_Witness ==
    \E r \in Runs :
        /\ rw_pc[r] = "done" /\ ~stop_req[r]
        /\ Len(jobs[r]) = 2 /\ spawned[r] = 2
        /\ \A i \in Items(r) : hist[r][i].recorded = 1

\* every worker thread of run r has been started and has exited
AllExited(r) == \A k \in 1..num_threads[r] : w_pc[r][k] = "exit"

\* C6: for every run whose run_workers thread start_scan started, scan_done is
\* eventually registered, only after every worker of the run has exited, and
\* never twice, cancelled or not
C6_CompletionOnce ==
    /\ [](\A r \in Runs : /\ done_count[r] <= 1
                         /\ done_count[r] = 1 => AllExited(r))
    /\ \A r \in Runs : (rw_pc[r] = "spawn") ~> (done_count[r] = 1)

\* scan_done was registered for a run that had been cancelled with an item
\* still in its queue
C6_Witness ==
    \E r \in Runs :
        /\ done_count[r] = 1 /\ stop_req[r]
        /\ \E i \in Items(r) : hist[r][i].deq = 0

\* a form start_scan must turn down: no target, no port, or no protocol
ConfigError(inp) ==
    \/ parse_targets(Strip(inp.targets)) = <<>>
    \/ parse_ports(Strip(inp.ports)) = <<>>
    \/ ~inp.tcp /\ ~inp.udp

\* C7: a start with no target, no port or no protocol leaves the session out
\* of the scanning state and starts no thread
C7_ConfigErrorStartsNothing ==
    [][\A inp \in StartInputs :
          (ConfigError(inp) /\ start_scan(inp)) =>
              (scanning' = scanning /\ rw_pc' = rw_pc)]_vars

\* C8: every value parse_ports returns lies in [1, 65535]
C8_PortsInRange ==
    ports_pc = "done" =>
        \A i \in 1..Len(ports_out) : PortLow <= ports_out[i] /\ ports_out[i] <= PortHigh

\* C9: a connection attempt that is established gives (open, ""), one that is
\* refused and no other gives (closed, ""), and a timeout, an unreachable
\* host or a resolution failure gives (unknown, error text)
C9_ConnectStateInference ==
    (pr_pc = "returned" /\ pr_in.timeout_ok) =>
        /\ pr_in.outcome = "established" => pr_ret = [state |-> "open", info |-> ""]
        /\ pr_ret = [state |-> "closed", info |-> ""] <=> pr_in.outcome = "refused"
        /\ pr_in.outcome \in {"timeout", "unreachable", "resolve_fail"} =>
              pr_ret = [state |-> "unknown", info |-> ErrText(pr_in.outcome)]

\* C10: when tcp_connect_scan has returned, the socket it created is closed,
\* and no socket of an earlier call is open
C10_NoSocketLeak ==
    /\ pr_pc = "returned" => pr_sock # "open"
    /\ pr_open = 0

\* the separators of the port field
PortSeps == WhiteSpace \cup {",", ";"}

\* the tokens of a text: its maximal pieces free of separators
TokensOf(text, seps) ==
    {SubSeq(text, i, j) : <<i, j>> \in
        {sp \in (1..Len(text)) \X (1..Len(text)) :
            /\ sp[1] <= sp[2]
            /\ \A k \in sp[1]..sp[2] : text[k] \notin seps
            /\ sp[1] = 1 \/ text[sp[1] - 1] \in seps
            /\ sp[2] = Len(text) \/ text[sp[2] + 1] \in seps}}

\* positions of the hyphens of a token
Hyphens(tok) == {i \in 1..Len(tok) : tok[i] = "-"}

\* what one token of the port field is to contribute: a single integer gives
\* itself when it is a port number, a-b with two integer sides gives the
\* range between max(a, 1) and min(b, 65535) in either order, anything else
\* gives nothing
PortContribution(tok) ==
    IF Hyphens(tok) = {}
    THEN IF IntOk(tok) /\ IntVal(tok) \in PortLow..PortHigh THEN {IntVal(tok)} ELSE {}
    ELSE IF Cardinality(Hyphens(tok)) # 1 THEN {}
    ELSE LET h == CHOOSE i \in Hyphens(tok) : TRUE
             left == SubSeq(tok, 1, h - 1)
             right == SubSeq(tok, h + 1, Len(tok))
         IN IF ~(IntOk(left) /\ IntOk(right)) THEN {}
            ELSE LET a == Max(IntVal(left), PortLow)
                     b == Min(IntVal(right), PortHigh)
                 IN {n \in Min(a, b)..Max(a, b) : TRUE}

\* C11: parse_ports returns, strictly ascending, exactly the union of what
\* the tokens of its text contribute; a malformed token adds nothing and
\* takes nothing away, and an empty text gives the empty list
C11_PortsResult ==
    ports_pc = "done" =>
        /\ \A i \in 1..(Len(ports_out) - 1) : ports_out[i] < ports_out[i + 1]
        /\ Range(ports_out) =
              UNION {PortContribution(tok) : tok \in TokensOf(ports_text, PortSeps)}

\* parse_ports has returned 1, 2 for a text holding a malformed token and
\* a range written backwards
C11_Witness ==
    /\ ports_pc = "done"
    /\ ports_text = <<"x", ",", "2", "-", "1">>
    /\ ports_out = <<1, 2>>

\* the separators of the target box
TargetSeps == {"\n", ",", ";"}

\* where the tokens of a text begin
TokenStarts(text, seps) ==
    {i \in 1..Len(text) : text[i] \notin seps /\ (i = 1 \/ text[i - 1] \in seps)}

\* the token that begins at position i
TokenAt(text, seps, i) ==
    LET j == CHOOSE e \in i..Len(text) :
                /\ \A k \in i..e : text[k] \notin seps
                /\ e = Len(text) \/ text[e + 1] \in seps
    IN SubSeq(text, i, j)

\* what one token of the target box is to contribute
TargetContribution(tok) ==
    LET t == Strip(tok)
    IN IF t = <<>> THEN <<>>
       ELSE IF ~Contains(t, "/") THEN <<t>>
       ELSE IF ip_network_ok(t) THEN network_hosts(t)
       ELSE <<>>

RECURSIVE ConcatFrom(_, _, _)
\* the contributions of the tokens that begin at or after position i, in
\* order of appearance
ConcatFrom(text, seps, i) ==
    IF i > Len(text) THEN <<>>
    ELSE IF i \in TokenStarts(text, seps)
         THEN TargetContribution(TokenAt(text, seps, i)) \o ConcatFrom(text, seps, i + 1)
         ELSE ConcatFrom(text, seps, i + 1)

\* the addresses of a list are in ascending order
HostsAscending(hosts) ==
    \A i \in 1..(Len(hosts) - 1) : IPv4Int(hosts[i]) < IPv4Int(hosts[i + 1])

\* C12: parse_targets returns the contributions of the tokens of its text in
\* order of appearance: a token without '/' itself, a network its usable
\* hosts in ascending order, any other token with '/' nothing; the result
\* is empty only if no token contributes, and repetitions are kept
C12_TargetsResult ==
    targets_pc = "done" =>
        /\ targets_out = ConcatFrom(targets_text, TargetSeps, 1)
        /\ \A i \in TokenStarts(targets_text, TargetSeps) :
              LET t == Strip(TokenAt(targets_text, TargetSeps, i))
              IN /\ ip_network_ok(t) => HostsAscending(network_hosts(t))
                 /\ targets_out = <<>> =>
                       t = <<>> \/ (Contains(t, "/") /\ ~ip_network_ok(t))

\* parse_targets has returned the two hosts of 10.0.0.4/30 for a text that
\* holds 10.0.0.5/30 and a token with '/' that is no network
C12_Witness ==
    /\ targets_pc = "done"
    /\ targets_text = <<"1", "0", ".", "0", ".", "0", ".", "5", "/", "3", "0", ",", "a", "/", "b">>
    /\ targets_out = <<<<"1", "0", ".", "0", ".", "0", ".", "5">>,
                       <<"1", "0", ".", "0", ".", "0", ".", "6">>>>

\* the flags that are set in a flags byte
FlagSet(flags) == {b \in {1, 2, 4, 8, 16, 32} : (flags \div b) % 2 = 1}

\* the states a probe may return
ProbeStates == {"open", "closed", "filtered", "open|filtered", "unknown"}

\* C13: with scapy available, tcp_syn_scan gives filtered for no reply, open
\* for a TCP reply with SYN and ACK, closed for a TCP reply with RST and
\* ACK that is not SYN and ACK, filtered for any other reply and unknown on
\* an exception; udp_scan gives open|filtered for no reply, open for a UDP
\* reply, filtered for any other and unknown on an exception; every state
\* any probe returns is one of the five
C13_RawProbeTable ==
    raw_pc = "done" =>
        LET r == raw_in.reply
            synack == r.kind = "tcp" /\ {SYN, ACK} \subseteq FlagSet(r.flags)
            rstack == r.kind = "tcp" /\ {RST, ACK} \subseteq FlagSet(r.flags)
        IN /\ raw_out.state \in ProbeStates
           /\ (raw_in.scapy /\ raw_in.fn = "tcp_syn_scan") =>
                 raw_out.state =
                    CASE r.kind = "raise" -> "unknown"
                      [] r.kind = "none" -> "filtered"
                      [] synack -> "open"
                      [] rstack -> "closed"
                      [] OTHER -> "filtered"
           /\ (raw_in.scapy /\ raw_in.fn = "udp_scan") =>
                 raw_out.state =
                    CASE r.kind = "raise" -> "unknown"
                      [] r.kind = "none" -> "open|filtered"
                      [] r.kind = "udp" -> "open"
                      [] OTHER -> "filtered"

\* tcp_syn_scan, with scapy, has returned closed for a reply with RST and ACK
C13_Witness ==
    /\ raw_pc = "done"
    /\ raw_in.scapy /\ raw_in.fn = "tcp_syn_scan"
    /\ raw_in.reply = [kind |-> "tcp", flags |-> RST + ACK]
    /\ raw_out.state = "closed"

\* C14: without scapy, tcp_syn_scan returns what tcp_connect_scan returns on
\* the same connection outcome, and udp_scan returns unknown with a
\* diagnostic, having sent nothing
C14_CapabilityDegradation ==
    (raw_pc = "done" /\ ~raw_in.scapy) =>
        /\ raw_in.fn = "tcp_syn_scan" =>
              /\ raw_out = tcp_connect_scan(raw_in.outcome)
              /\ ~raw_out.sent
        /\ raw_in.fn = "udp_scan" =>
              /\ raw_out.state = "unknown"
              /\ raw_out.info # ""
              /\ ~raw_out.sent

\* tcp_syn_scan, without scapy, has returned open for an established
\* connection although the reply a raw packet would meet is none
C14_Witness ==
    /\ raw_pc = "done"
    /\ ~raw_in.scapy /\ raw_in.fn = "tcp_syn_scan"
    /\ raw_in.outcome = "established" /\ raw_in.reply.kind = "none"
    /\ raw_out.state = "open"

\* the probe of the job worker k of run r holds ends in an error: an
\* exception inside the probe, or scapy missing for a UDP job
ProbeFails(r, k) ==
    LET job == jobs[r][w_job[r][k]]
    IN IF job[2] = "udp"
       THEN ~scapy \/ NetReply(job[1], job[2], job[3]).kind = "raise"
       ELSE IF settings[r] = "syn" /\ scapy
       THEN NetReply(job[1], job[2], job[3]).kind = "raise"
       ELSE NetOutcome(job[1], job[3]) = "resolve_fail"

\* C15: whatever the probe and the sink do, the worker appends one result
\* for the job it holds (unknown with a diagnostic when the probe failed)
\* and returns to its loop; a run that is not cancelled completes, with
\* every job recorded exactly once
C15_FailingProbeNeverAborts ==
    /\ [][\A r \in Runs, k \in Slots :
            worker_probe(r, k) =>
                LET i == w_job[r][k]
                    l == w_results[r][k]
                IN /\ hist'[r][i].recorded = hist[r][i].recorded + 1
                   /\ Len(lists'[l]) = Len(lists[l]) + 1
                   /\ Triple(lists'[l][Len(lists'[l])]) = jobs[r][i]
                   /\ ProbeFails(r, k) =>
                         /\ lists'[l][Len(lists'[l])].state = "unknown"
                         /\ lists'[l][Len(lists'[l])].info # ""
                   /\ w_pc'[r][k] = "loop"]_vars
    /\ [](\A r \in Runs :
            (rw_pc[r] = "done" /\ ~stop_req[r]) =>
                \A i \in Items(r) : hist[r][i].recorded = 1)
    /\ \A r \in Runs : (rw_pc[r] = "spawn") ~> (rw_pc[r] = "done")

\* a run of two failing jobs has completed without a stop, both jobs
\* recorded, and at least one row was lost by the sink
C15_Witness ==
    \E r \in Runs :
        /\ rw_pc[r] = "done" /\ ~stop_req[r]
        /\ Len(jobs[r]) = 2
        /\ \A i \in Items(r) : hist[r][i].recorded = 1
        /\ clicks = ErrClicks - 1
        /\ Len(tree) + Cardinality({n \in 1..Len(afterq) : afterq[n].cb = "insert"}) < 2

\* the protocols ticked, TCP first
ProtosOf(tcp, udp) ==
    (IF tcp THEN <<"tcp">> ELSE <<>>) \o (IF udp THEN <<"udp">> ELSE <<>>)

\* the jobs of a run in the order the queue is to hold them: the target
\* changes slowest, then the port, then the protocol
OrderedJobs(targets, ports, tcp, udp) ==
    LET protos == ProtosOf(tcp, udp)
        np == Len(protos)
        n == Len(targets) * Len(ports) * np
    IN [x \in 1..n |->
          <<targets[((x - 1) \div (Len(ports) * np)) + 1],
            protos[((x - 1) % np) + 1],
            ports[(((x - 1) \div np) % Len(ports)) + 1]>>]

\* the ports of a list are in ascending order
PortsAscending(ports) == \A i \in 1..(Len(ports) - 1) : ports[i] < ports[i + 1]

\* C16: start_scan fills the queue of a run once, before any worker of the
\* run exists, targets outer, ascending ports middle, TCP before UDP inner;
\* afterwards the queue only loses its oldest item, so a job is never
\* dequeued before a job that precedes it
C16_FifoOrder ==
    /\ [][\A inp \in OrderInputs :
            (start_scan(inp) /\ nruns' = nruns + 1) =>
                LET targets == parse_targets(Strip(inp.targets))
                    ports == parse_ports(Strip(inp.ports))
                    q == taskq'[nruns']
                IN /\ PortsAscending(ports)
                   /\ [i \in 1..Len(q) |-> jobs'[nruns'][q[i]]]
                         = OrderedJobs(targets, ports, inp.tcp, inp.udp)
                   /\ spawned[nruns'] = 0]_vars
    /\ [][\A r \in Runs :
            (rw_pc[r] # "none" /\ taskq'[r] # taskq[r]) =>
                taskq[r] # <<>> /\ taskq'[r] \in {Tail(taskq[r]), <<>>}]_vars
    /\ [](\A r \in Runs : \A i, j \in Items(r) :
            (i < j /\ hist[r][j].deq > 0) => hist[r][i].deq > 0)

\* the worker of a run of four jobs, b/tcp/1, b/tcp/2, a/tcp/1, a/tcp/2,
\* holds the third, the first two being recorded and the fourth in the queue
C16_Witness ==
    \E r \in Runs :
        /\ jobs[r] = <<<<<<"b">>, "tcp", 1>>, <<<<"b">>, "tcp", 2>>,
                       <<<<"a">>, "tcp", 1>>, <<<<"a">>, "tcp", 2>>>>
        /\ w_job[r][1] = 3
        /\ hist[r][1].recorded = 1 /\ hist[r][2].recorded = 1
        /\ taskq[r] = <<4>>

\* the probes in flight: the workers, of any run, inside a probe call
InFlight == {rk \in Runs \X Slots : w_pc[rk[1]][rk[2]] = "probe"}

\* C17: a run creates as many workers as its concurrency, a number from 1
\* to 500, and never more; and the probes in flight in the application are
\* never more than the concurrency of the run in progress
C17_BoundedPool ==
    /\ \A r \in Runs :
          rw_pc[r] # "none" =>
              /\ num_threads[r] \in 1..ThreadCap
              /\ spawned[r] <= num_threads[r]
              /\ rw_pc[r] \in {"join", "done"} => spawned[r] = num_threads[r]
    /\ nruns > 0 => Cardinality(InFlight) <= num_threads[nruns]

\* worker k of run r is a live thread
WorkerAlive(r, k) == w_pc[r][k] \in {"loop", "get", "got", "probe"}

\* C18: while the scanning flag is False no worker of any run is alive; the
\* live workers all belong to one run; and the scan_done of a run never runs
\* while a later run is in progress
C18_RunsNeverOverlap ==
    /\ [](~scanning => \A r \in Runs, k \in Slots : ~WorkerAlive(r, k))
    /\ [](\A r1, r2 \in Runs, k1, k2 \in Slots :
            (WorkerAlive(r1, k1) /\ WorkerAlive(r2, k2)) => r1 = r2)
    /\ [][\A r \in Runs : ScanDoneOf(r) => ~(r < nruns /\ RunLive(nruns))]_vars

\* the table row of a record
TreeRow(rec) ==
    [target |-> rec.target, proto |-> rec.proto, port |-> rec.port,
     estado |-> traduz_estado(rec.state), info |-> rec.info]

\* how many times x occurs in a sequence
Count(seq, x) == Cardinality({n \in 1..Len(seq) : seq[n] = x})

\* no thread is left and no row insertion is pending
Quiescent ==
    /\ \A r \in Runs : rw_pc[r] \in {"none", "done"}
    /\ \A r \in Runs, k \in Slots : ~WorkerAlive(r, k)
    /\ \A n \in 1..Len(afterq) : afterq[n].cb # "insert"

\* C19: once every worker has exited and every row insertion has run, the
\* table shows the records of self.results, each as many times as it is
\* there, and every row is a job of the run started last
C19_TableAgreesWithResults ==
    Quiescent =>
        /\ Len(tree) = Len(Results)
        /\ \A n \in 1..Len(Results) :
              Count(tree, TreeRow(Results[n]))
                  = Count([m \in 1..Len(Results) |-> TreeRow(Results[m])], TreeRow(Results[n]))
        /\ \A n \in 1..Len(tree) :
              nruns > 0 /\ Triple(tree[n]) \in Range(jobs[nruns])

\* a press of Iniciar the handler returns from before it begins anything:
\* a scan is in progress, no target is left, or no port is left for the
\* protocols ticked
ReturnsEarly(inp) ==
    \/ scanning
    \/ parse_targets(Strip(inp.targets)) = <<>>
    \/ parse_ports(Strip(inp.ports)) = <<>> /\ (inp.tcp \/ inp.udp)

\* what a rejected start must leave alone
Kept == <<results, lists, tree, scanning, stop_event, start_btn, stop_btn>>

CliProto(proto) == IF proto = "tcp" THEN "TCP" ELSE "UDP"

\* a ScanResult written as the command-line program writes a result
LineOf(rec) == <<rec.target, CliProto(rec.proto), NatStr(rec.port), rec.state, rec.info>>

\* the records of a run, written as lines, in the order they were appended
LinesOf(r) == [n \in 1..Len(produced[r]) |-> LineOf(produced[r][n])]

\* a run whose run_workers has joined every worker and that no Parar hit
Completed(r) == rw_pc[r] = "done" /\ ~stop_req[r]

\* C21: a run that was not cancelled has produced, once its workers are
\* joined, the results the command-line program lists for the same text,
\* flags and TCP mode, each as many times; with one worker it has produced
\* them in the same order
C21_RefinesSequentialScan ==
    \A r \in Runs :
        Completed(r) =>
            LET out == cli_main(CliArgs(form[r]), scapy)
            IN out.exit = 0 =>
                  /\ Len(LinesOf(r)) = Len(out.results)
                  /\ \A n \in 1..Len(out.results) :
                        Count(LinesOf(r), out.results[n]) = Count(out.results, out.results[n])
                  /\ num_threads[r] = 1 => LinesOf(r) = out.results

\* a run of four jobs with one worker and a run of two jobs with two workers
\* have both completed, and the second recorded its UDP job before its TCP
\* job
C21_Witness ==
    \E r1, r2 \in Runs :
        /\ Completed(r1) /\ num_threads[r1] = 1 /\ Len(produced[r1]) = 4
        /\ Completed(r2) /\ num_threads[r2] = 2 /\ Len(produced[r2]) = 2
        /\ produced[r2][1].proto = "udp"

=============================================================================
